---- MODULE Spec2Model ----
(***************************************************************************)
(* The gateway of fastapi-microservices (gateway/main.py) together with    *)
(* the two services it proxies to (auth-service/main.py,                   *)
(* user-service/main.py).                                                  *)
(*                                                                         *)
(* A path is the sequence of its pieces, the separator "/" being a piece   *)
(* of its own: "/auth/login" is <<"/", "auth", "/", "login">>.  A body is  *)
(* a record [kind, val, ws]: kind "json" with the document val written     *)
(* with whitespace style ws, or kind "raw" for bytes that are no JSON      *)
(* document.                                                               *)
(***************************************************************************)
EXTENDS Naturals, Sequences, FiniteSets

\* Number of inbound requests the gateway may have in hand at once.
NumRequests == 2

Reqs == 1..NumRequests

VARIABLES
    req,        \* req[r]: the inbound request (method, path, body)
    pc,         \* pc[r]: "idle", "awaiting" (suspended in client.get),
                \*        "resumable" (the await has an outcome), "done"
    handler,    \* handler[r]: the endpoint the router dispatched r to
    clients,    \* the open httpx.AsyncClient objects, named by their owner
    calls,      \* calls[r]: the outbound requests sent on behalf of r
    outcome,    \* outcome[r]: what the await of client.get ended with
    exc,        \* exc[r]: the exception that left the handler, or "none"
    resp        \* resp[r]: the response given to the caller

vars == <<req, pc, handler, clients, calls, outcome, exc, resp>>

----------------------------------------------------------------------------
(* Sequences *)

StartsWith(s, p) == Len(s) >= Len(p) /\ SubSeq(s, 1, Len(p)) = p

Drop(s, n) == SubSeq(s, n + 1, Len(s))

Least(S) == CHOOSE i \in S : \A j \in S : i <= j

----------------------------------------------------------------------------
(* Bodies.  A handler's return value is rendered by the framework as a     *)
(* compact JSON document; response.json() decodes a body to its document   *)
(* or raises.                                                              *)

NoBody == [kind |-> "raw", val |-> [text |-> ""], ws |-> "none"]

Render(doc) == [kind |-> "json", val |-> doc, ws |-> "compact"]

Decodable(body) == body.kind = "json"

Json(body) == body.val

JSONResponse(status, doc) == [status |-> status, body |-> Render(doc)]

NotFoundResponse == JSONResponse(404, [detail |-> "Not Found"])

MethodNotAllowedResponse == JSONResponse(405, [detail |-> "Method Not Allowed"])

\* What the server gives the caller when an exception leaves a handler.
InternalServerError ==
    [status |-> 500,
     body |-> [kind |-> "raw", val |-> [text |-> "Internal Server Error"], ws |-> "none"]]

NoResponse == [status |-> 0, body |-> NoBody]

----------------------------------------------------------------------------
(* Routing.  A route is a literal pattern, optionally followed by one      *)
(* parameter: "path" ({path:path}, any rest, also empty) or "str"          *)
(* ({user_id}, one piece that is no separator).                            *)

PathMatches(rt, p) ==
    CASE rt.param = "none" -> p = rt.pattern
      [] rt.param = "path" -> StartsWith(p, rt.pattern)
      [] rt.param = "str"  -> /\ StartsWith(p, rt.pattern)
                              /\ Len(p) = Len(rt.pattern) + 1
                              /\ p[Len(p)] # "/"

PathParam(rt, p) == Drop(p, Len(rt.pattern))

\* The first route matching path and method; failing that 405 when some
\* route matches the path alone, else 404.
Dispatch(routes, method, p) ==
    LET full == {i \in 1..Len(routes) :
                    PathMatches(routes[i], p) /\ method \in routes[i].methods}
        partial == {i \in 1..Len(routes) : PathMatches(routes[i], p)}
    IN  IF full # {} THEN routes[Least(full)].endpoint
        ELSE IF partial # {} THEN "method_not_allowed"
        ELSE "not_found"

RouteOf(routes, endpoint) ==
    routes[CHOOSE i \in 1..Len(routes) : routes[i].endpoint = endpoint]

----------------------------------------------------------------------------
(* auth-service *)

AuthRoutes ==
    << [pattern |-> <<"/", "health">>, param |-> "none", methods |-> {"GET"},
        endpoint |-> "health"],
       [pattern |-> <<"/", "login">>, param |-> "none", methods |-> {"POST"},
        endpoint |-> "login"],
       [pattern |-> <<"/", "validate">>, param |-> "none", methods |-> {"POST"},
        endpoint |-> "validate"] >>

AuthService(method, p) ==
    LET e == Dispatch(AuthRoutes, method, p)
    IN  CASE e = "health"   -> JSONResponse(200, [status |-> "healthy", service |-> "auth"])
          [] e = "login"    -> JSONResponse(200, [token |-> "mock-jwt-token"])
          [] e = "validate" -> JSONResponse(200, [valid |-> TRUE, user_id |-> "123"])
          [] e = "method_not_allowed" -> MethodNotAllowedResponse
          [] OTHER -> NotFoundResponse

----------------------------------------------------------------------------
(* user-service *)

UserRoutes ==
    << [pattern |-> <<"/", "health">>, param |-> "none", methods |-> {"GET"},
        endpoint |-> "health"],
       [pattern |-> <<"/", "users", "/">>, param |-> "str", methods |-> {"GET"},
        endpoint |-> "get_user"],
       [pattern |-> <<"/", "users">>, param |-> "none", methods |-> {"POST"},
        endpoint |-> "create_user"] >>

UserService(method, p) ==
    LET e == Dispatch(UserRoutes, method, p)
    IN  CASE e = "health"   -> JSONResponse(200, [status |-> "healthy", service |-> "user"])
          [] e = "get_user" ->
                JSONResponse(200, [id |-> PathParam(RouteOf(UserRoutes, e), p)[1],
                                   name |-> "John Doe",
                                   email |-> "john@example.com"])
          [] e = "create_user" -> JSONResponse(200, [id |-> "456", message |-> "User created"])
          [] e = "method_not_allowed" -> MethodNotAllowedResponse
          [] OTHER -> NotFoundResponse

----------------------------------------------------------------------------
(* gateway *)

GatewayRoutes ==
    << [pattern |-> <<"/", "health">>, param |-> "none", methods |-> {"GET"},
        endpoint |-> "health"],
       [pattern |-> <<"/", "auth", "/">>, param |-> "path", methods |-> {"GET"},
        endpoint |-> "auth_proxy"],
       [pattern |-> <<"/", "users", "/">>, param |-> "path", methods |-> {"GET"},
        endpoint |-> "user_proxy"] >>

AuthHost == "auth-service:8000"

UserHost == "user-service:8000"

\* f"http://<host>/{path}": the path of the URL is "/" followed by the
\* path parameter.
Url(host, path) == [host |-> host, path |-> <<"/">> \o path]

\* client.get(url): a GET of the URL, with no body.
ClientGet(url) == [method |-> "GET", host |-> url.host, path |-> url.path, body |-> NoBody]


\* A router with a catch-all route: what no route matches goes to user_proxy.
GatewayDispatch_catchall(method, p) ==
    IF \A i \in 1..Len(GatewayRoutes) : ~PathMatches(GatewayRoutes[i], p)
    THEN "user_proxy"
    ELSE Dispatch(GatewayRoutes, method, p)

\* The endpoint the gateway's router picks for an inbound request.
GatewayDispatch(method, p) == Dispatch(GatewayRoutes, method, p)

\* The URL auth_proxy requests.
auth_url(path) == Url(AuthHost, path)

\* The URL user_proxy requests.
user_url(path) == Url(UserHost, path)

\* What the service a call is addressed to answers.
Serve(call) ==
    IF call.host = AuthHost THEN AuthService(call.method, call.path)
    ELSE UserService(call.method, call.path)

----------------------------------------------------------------------------
(* Inputs *)

Methods == {"GET", "POST"}

Paths ==
    { <<"/">>,
      <<"/", "health">>,
      <<"/", "unknown", "/", "path">>,
      <<"/", "authx", "/", "login">>,
      <<"/", "auth", "/", "login">>,
      <<"/", "auth", "/", "health">>,
      <<"/", "users", "/", "123">>,
      <<"/", "users", "/", "users", "/", "123">> }

Credentials == Render([username |-> "john"])

\* A GET comes without a body, a POST with or without one.
InBodies(m) == IF m = "GET" THEN {NoBody} ELSE {NoBody, Credentials}

\* Replies of an upstream that is some other HTTP server than the
\* repository's stub: an error page, and a JSON document written with
\* whitespace.
OtherReplies ==
    { [status |-> 503,
       body |-> [kind |-> "raw", val |-> [text |-> "<html>Service Unavailable</html>"],
                 ws |-> "none"]],
      [status |-> 200,
       body |-> [kind |-> "json", val |-> [id |-> "123", name |-> "John Doe"],
                 ws |-> "spaced"]] }

NoRequest == [method |-> "", path |-> <<>>, body |-> NoBody]

NoOutcome == [kind |-> "none", response |-> NoResponse]

----------------------------------------------------------------------------
(* State *)

Init ==
    /\ req = [r \in Reqs |-> NoRequest]
    /\ pc = [r \in Reqs |-> "idle"]
    /\ handler = [r \in Reqs |-> "none"]
    /\ clients = {}
    /\ calls = [r \in Reqs |-> <<>>]
    /\ outcome = [r \in Reqs |-> NoOutcome]
    /\ exc = [r \in Reqs |-> "none"]
    /\ resp = [r \in Reqs |-> NoResponse]

\* The router answers r itself, or runs a handler that returns at once.
Answer(r, m, p, b, endpoint, response) ==
    /\ req' = [req EXCEPT ![r] = [method |-> m, path |-> p, body |-> b]]
    /\ handler' = [handler EXCEPT ![r] = endpoint]
    /\ resp' = [resp EXCEPT ![r] = response]
    /\ pc' = [pc EXCEPT ![r] = "done"]
    /\ UNCHANGED <<clients, calls, outcome, exc>>

health(r) ==
    \E m \in Methods, p \in Paths : \E b \in InBodies(m) :
        /\ pc[r] = "idle"
        /\ GatewayDispatch(m, p) = "health"
        /\ Answer(r, m, p, b, "health",
                  JSONResponse(200, [status |-> "healthy", service |-> "gateway"]))

NotFound(r) ==
    \E m \in Methods, p \in Paths : \E b \in InBodies(m) :
        /\ pc[r] = "idle"
        /\ GatewayDispatch(m, p) = "not_found"
        /\ Answer(r, m, p, b, "not_found", NotFoundResponse)

MethodNotAllowed(r) ==
    \E m \in Methods, p \in Paths : \E b \in InBodies(m) :
        /\ pc[r] = "idle"
        /\ GatewayDispatch(m, p) = "method_not_allowed"
        /\ Answer(r, m, p, b, "method_not_allowed", MethodNotAllowedResponse)

\* A proxy handler up to its await: the client is opened, the GET is sent
\* and the handler is suspended.
ProxyEnter(r, m, p, b, endpoint, url) ==
    /\ req' = [req EXCEPT ![r] = [method |-> m, path |-> p, body |-> b]]
    /\ handler' = [handler EXCEPT ![r] = endpoint]
    /\ clients' = clients \cup {r}
    /\ calls' = [calls EXCEPT ![r] = Append(@, ClientGet(url))]
    /\ pc' = [pc EXCEPT ![r] = "awaiting"]
    /\ UNCHANGED <<outcome, exc, resp>>

auth_proxy(r) ==
    \E m \in Methods, p \in Paths : \E b \in InBodies(m) :
        /\ pc[r] = "idle"
        /\ GatewayDispatch(m, p) = "auth_proxy"
        /\ ProxyEnter(r, m, p, b, "auth_proxy",
                      auth_url(PathParam(RouteOf(GatewayRoutes, "auth_proxy"), p)))

user_proxy(r) ==
    \E m \in Methods, p \in Paths : \E b \in InBodies(m) :
        /\ pc[r] = "idle"
        /\ GatewayDispatch(m, p) = "user_proxy"
        /\ ProxyEnter(r, m, p, b, "user_proxy",
                      user_url(PathParam(RouteOf(GatewayRoutes, "user_proxy"), p)))

\* The await of client.get ends.
Settle(r, o) ==
    /\ outcome' = [outcome EXCEPT ![r] = o]
    /\ pc' = [pc EXCEPT ![r] = "resumable"]
    /\ UNCHANGED <<req, handler, clients, calls, exc, resp>>

UpstreamServes(r) ==
    /\ pc[r] = "awaiting"
    /\ Settle(r, [kind |-> "response", response |-> Serve(calls[r][Len(calls[r])])])

UpstreamRepliesOther(r) ==
    \E reply \in OtherReplies :
        /\ pc[r] = "awaiting"
        /\ Settle(r, [kind |-> "response", response |-> reply])

\* The connection is refused: client.get raises httpx.ConnectError.
UpstreamRefuses(r) ==
    /\ pc[r] = "awaiting"
    /\ Settle(r, [kind |-> "ConnectError", response |-> NoResponse])

\* No answer within the client's default timeout: client.get raises
\* httpx.ReadTimeout.
UpstreamTimesOut(r) ==
    /\ pc[r] = "awaiting"
    /\ Settle(r, [kind |-> "ReadTimeout", response |-> NoResponse])

\* A reply kept in one slot shared by the handlers: the handler reads the
\* reply of whichever request has one.
AwaitResult_shared(r) == outcome[CHOOSE s \in Reqs : pc[s] = "resumable"]

\* What the handler's await of client.get evaluates to.
AwaitResult(r) == outcome[r]

\* A client closed by an explicit call after response.json(), which an
\* exception skips.
CloseClient_on_return(r) ==
    IF outcome[r].kind = "response" /\ Decodable(outcome[r].response.body)
    THEN clients \ {r}
    ELSE clients

\* Leaving the "async with" block closes the handler's client, whether by
\* return or by exception.
CloseClient(r) == clients \ {r}

\* A proxy handler from its await on: an exception of client.get or of
\* response.json() leaves the handler; otherwise the decoded document is
\* returned and rendered with the default status.
ProxyReturn(r) ==
    /\ LET o == AwaitResult(r)
       IN  IF o.kind # "response"
           THEN /\ exc' = [exc EXCEPT ![r] = o.kind]
                /\ resp' = [resp EXCEPT ![r] = InternalServerError]
           ELSE IF ~Decodable(o.response.body)
           THEN /\ exc' = [exc EXCEPT ![r] = "JSONDecodeError"]
                /\ resp' = [resp EXCEPT ![r] = InternalServerError]
           ELSE /\ exc' = exc
                /\ resp' = [resp EXCEPT ![r] = JSONResponse(200, Json(o.response.body))]
    /\ clients' = CloseClient(r)
    /\ pc' = [pc EXCEPT ![r] = "done"]
    /\ UNCHANGED <<req, handler, calls, outcome>>

auth_proxy_return(r) ==
    /\ pc[r] = "resumable"
    /\ handler[r] = "auth_proxy"
    /\ ProxyReturn(r)

user_proxy_return(r) ==
    /\ pc[r] = "resumable"
    /\ handler[r] = "user_proxy"
    /\ ProxyReturn(r)

Next ==
    \E r \in Reqs :
        \/ health(r)
        \/ NotFound(r)
        \/ MethodNotAllowed(r)
        \/ auth_proxy(r)
        \/ user_proxy(r)
        \/ UpstreamServes(r)
        \/ UpstreamRepliesOther(r)
        \/ UpstreamRefuses(r)
        \/ UpstreamTimesOut(r)
        \/ auth_proxy_return(r)
        \/ user_proxy_return(r)

Spec == Init /\ [][Next]_vars

----------------------------------------------------------------------------
(* Properties *)

Proxies == {"auth_proxy", "user_proxy"}

\* The path is P/x for the prefix P ("auth" or "users").
HasPrefix(p, P) == StartsWith(p, <<"/", P, "/">>)

\* The remainder x of a path P/x.
Remainder(p) == Drop(p, 3)

\* The route table of the specification.
UpstreamOf(P) == IF P = "auth" THEN "auth-service:8000" ELSE "user-service:8000"

Replied(r) == pc[r] = "done" /\ handler[r] \in Proxies /\ outcome[r].kind = "response"

\* C1: a request to P/x, P a configured prefix, causes exactly one outbound
\* request, to the upstream of P, with path /x.
C1_ForwardedToUpstream ==
    \A r \in Reqs : \A P \in {"auth", "users"} :
        (pc[r] # "idle" /\ HasPrefix(req[r].path, P)) =>
            /\ Len(calls[r]) = 1
            /\ calls[r][1].host = UpstreamOf(P)
            /\ calls[r][1].path = <<"/">> \o Remainder(req[r].path)

\* The part of C1 the code keeps: a GET request to P/x is forwarded once,
\* to the upstream of P, with path /x.
ForwardedWhenGet ==
    \A r \in Reqs : \A P \in {"auth", "users"} :
        (pc[r] # "idle" /\ req[r].method = "GET" /\ HasPrefix(req[r].path, P)) =>
            /\ Len(calls[r]) = 1
            /\ calls[r][1].host = UpstreamOf(P)
            /\ calls[r][1].path = <<"/">> \o Remainder(req[r].path)

\* C2: when the upstream replied, the caller gets the upstream's status and
\* the upstream's body, unchanged.
C2_RelaysStatusAndBody ==
    \A r \in Reqs :
        Replied(r) =>
            /\ resp[r].status = outcome[r].response.status
            /\ resp[r].body = outcome[r].response.body

\* The path is neither /health nor /auth/... nor /users/...
Unconfigured(p) ==
    /\ p # <<"/", "health">>
    /\ ~HasPrefix(p, "auth")
    /\ ~HasPrefix(p, "users")

C4_RefusedIsUnavailable ==
    \A r \in Reqs :
        (pc[r] = "done" /\ outcome[r].kind = "ConnectError") =>
            /\ resp[r].status = 502
            /\ exc[r] # "ConnectError"

\* C5: when the upstream does not answer within the timeout the caller
\* gets a 504 result and the outbound call is released.
C5_TimeoutIsGatewayTimeout ==
    \A r \in Reqs :
        (pc[r] = "done" /\ outcome[r].kind = "ReadTimeout") =>
            /\ resp[r].status = 504
            /\ r \notin clients

\* C6: the outbound request carries the inbound request's method and body.
C6_ForwardsMethodAndBody ==
    \A r \in Reqs : \A P \in {"auth", "users"} :
        (pc[r] # "idle" /\ HasPrefix(req[r].path, P)) =>
            /\ Len(calls[r]) = 1
            /\ calls[r][1].method = req[r].method
            /\ calls[r][1].body = req[r].body

UpstreamFailed(r) ==
    /\ handler[r] \in Proxies
    /\ \/ outcome[r].kind \in {"ConnectError", "ReadTimeout"}
       \/ outcome[r].kind = "response" /\ ~Decodable(outcome[r].response.body)

\* The status of the structured error result of each failure kind.
ErrorStatus(r) == IF outcome[r].kind = "ReadTimeout" THEN 504 ELSE 502

\* C7: when the upstream failed, the response is a structured error result
\* of the matching kind and no exception has left the handler.
C7_StructuredErrorOnFailure ==
    \A r \in Reqs :
        (pc[r] = "done" /\ UpstreamFailed(r)) =>
            /\ exc[r] = "none"
            /\ resp[r].body.kind = "json"
            /\ resp[r].status = ErrorStatus(r)

\* The response the gateway owes a request, from the request and the
\* outcome of its own outbound call alone.
OwnResponse(request, o) ==
    LET e == Dispatch(GatewayRoutes, request.method, request.path)
    IN  CASE e = "health" -> JSONResponse(200, [status |-> "healthy", service |-> "gateway"])
          [] e = "not_found" -> NotFoundResponse
          [] e = "method_not_allowed" -> MethodNotAllowedResponse
          [] OTHER -> IF o.kind = "response" /\ o.response.body.kind = "json"
                      THEN [status |-> 200, body |-> Render(o.response.body.val)]
                      ELSE InternalServerError

OwnState(r) ==
    <<req[r], pc[r], handler[r], calls[r], outcome[r], exc[r], resp[r], r \in clients>>

\* C8: in every step, under every interleaving, a request that reaches its
\* response gets the one its own request and its own call's outcome decide,
\* and a step of one request changes nothing another request holds.
C8_RequestsIndependent ==
    [][\A r \in Reqs :
          /\ (pc'[r] = "done") => resp'[r] = OwnResponse(req'[r], outcome'[r])
          /\ (pc'[r] = pc[r]) => OwnState(r)' = OwnState(r)]_vars

C8_Witness ==
    \E r, s \in Reqs :
        /\ r # s
        /\ handler[r] \in Proxies /\ handler[s] \in Proxies
        /\ pc[r] = "done" /\ pc[s] = "resumable"
        /\ outcome[r] # outcome[s]
        /\ resp[r] = OwnResponse(req[r], outcome[r])

\* C9: when the upstream's body is no JSON document, the caller gets the
\* upstream's bytes unchanged or a structured error result, with no
\* decoding exception leaving the handler.
C9_BadBodyIsHandled ==
    \A r \in Reqs :
        (Replied(r) /\ ~Decodable(outcome[r].response.body)) =>
            /\ exc[r] # "JSONDecodeError"
            /\ \/ resp[r].body = outcome[r].response.body
               \/ resp[r].body.kind = "json"

InFlight == {r \in Reqs : handler[r] \in Proxies /\ pc[r] \in {"awaiting", "resumable"}}

\* C10: the open clients are exactly those of the proxy requests in
\* flight, one each; none is open when no request is in flight.
C10_ClientsMatchInFlight ==
    /\ clients = InFlight
    /\ Cardinality(clients) = Cardinality(InFlight)
    /\ (InFlight = {}) => (clients = {})

C10_Witness ==
    \E r, s \in Reqs :
        /\ pc[r] = "done" /\ exc[r] \in {"ConnectError", "ReadTimeout", "JSONDecodeError"}
        /\ r \notin clients
        /\ s \in clients

====
